---- MODULE Spec2Model ----
(***************************************************************************)
(* The cache + rate-limit admission layer of the news gateway              *)
(* (src/index.js; src/unnamed/part_000 holds the same handlers).           *)
(*                                                                         *)
(* Time is Date.now() in milliseconds, counted from the start of the       *)
(* process.  A handler runs without preemption up to its only await, the   *)
(* upstream fetch; the fetch completes (or fails) in a later step.         *)
(*                                                                         *)
(* JavaScript values are tagged records: [t, s] for the values that are    *)
(* tested for truthiness or formatted into a string (query parameters,     *)
(* upstream payloads, cache.get results), [t, n] for the counters, whose   *)
(* `++` and `>=` are defined on undefined and NaN as well.                 *)
(***************************************************************************)
EXTENDS Integers, Sequences, FiniteSets, Bags

VARIABLES
    now,                       \* Date.now()
    apiRequestCount,           \* index.js:30
    originalApiRequestCounts,  \* index.js:31, an object: property -> number
    rateLimitResetTime,        \* index.js:40
    firstRequestTime,          \* index.js:41
    cache,                     \* index.js:13, key -> [v, t] (value, expiry)
    inflight,                  \* bag of the handlers suspended at `await fetchNewsData`
    last,                      \* what the last handler step did and answered
    requests,                  \* number of requests received so far
    upstreamCalls,             \* identity -> fetches started since the last reset
    admitLog,                  \* identity -> bag of the times its fetches started
    probe                      \* two /search requests and the cache keys built for them

vars == <<now, apiRequestCount, originalApiRequestCounts, rateLimitResetTime,
          firstRequestTime, cache, inflight, last, requests, upstreamCalls,
          admitLog, probe>>

(***************************************************************************)
(* Bounds of the model.                                                    *)
(***************************************************************************)
MaxRequests == 2     \* requests received in one behaviour
MaxTicks == 3        \* the clock stops after this many steps

(***************************************************************************)
(* Program constants.                                                      *)
(***************************************************************************)
stdTTL == 43200
rateLimitWindow == 15 * 60 * 1000
rateLimit == 30

\* The clock advances in steps of five minutes, a third of a window.
TickMs == 5 * 60 * 1000

(***************************************************************************)
(* JavaScript values.                                                      *)
(***************************************************************************)
Undefined == [t |-> "undefined", s |-> ""]
Str(s) == [t |-> "string", s |-> s]
Obj(json) == [t |-> "object", s |-> json]

\* ToBoolean: `if (x)`, `x ? a : b`, `x || d`.
Truthy(x) ==
    CASE x.t = "undefined" -> FALSE
      [] x.t = "null" -> FALSE
      [] x.t = "string" -> x.s # ""
      [] x.t = "object" -> TRUE

\* TemplateString inside a template literal `${x}`.
TemplateString(x) ==
    CASE x.t = "undefined" -> "undefined"
      [] x.t = "null" -> "null"
      [] x.t = "string" -> x.s
      [] x.t = "object" -> "[object Object]"

Num(n) == [t |-> "number", n |-> n]
NaN == [t |-> "NaN", n |-> 0]
UndefinedNum == [t |-> "undefined", n |-> 0]
NullNum == [t |-> "null", n |-> 0]

\* ToBoolean of a number, undefined or null.
TruthyNum(x) == x.t = "number" /\ x.n # 0

\* obj[k]: a missing property reads as undefined.
Prop(obj, k) == IF k \in DOMAIN obj THEN obj[k] ELSE UndefinedNum

\* x >= m for a number m: undefined converts to NaN, and NaN compares false.
GreaterOrEqual(x, m) == x.t = "number" /\ x.n >= m

\* The value x++ stores: ToNumber(x) + 1, NaN for undefined and NaN.
Incremented(x) == IF x.t = "number" THEN Num(x.n + 1) ELSE NaN

\* obj[k]++ : creates the property when it is missing.
WithIncrement(obj, k) ==
    [p \in DOMAIN obj \cup {k} |-> IF p = k THEN Incremented(Prop(obj, k)) ELSE obj[p]]

(***************************************************************************)
(* Inputs.                                                                 *)
(***************************************************************************)
CountedIds == {"telugu", "english", "search"}
Identities == CountedIds \cup {"telugutwo"}

\* req.query.page: absent, or a string.
Pages == {Undefined, Str("2")}
\* req.query.q, req.query.language, req.query.category of /search.
Queries == {Str("modi")}
Languages == {Undefined}
Categories == {Undefined}

\* response.data of a successful upstream call: two result objects and an empty body.
Payloads == {Obj("{\"status\":\"success\",\"results\":[1]}"),
             Obj("{\"status\":\"success\",\"results\":[2]}"),
             Str("")}

(***************************************************************************)
(* The cache (node-cache, created with stdTTL).                            *)
(***************************************************************************)
\* A cache whose entries never expire.
Live_forever(c, key, time) == key \in DOMAIN c

\* An entry is live until Date.now() passes its expiry t.
Live(c, key, time) == key \in DOMAIN c /\ ~(c[key].t < time)

\* cache.get(key): the stored value, undefined for a missing or expired key.
CacheGet(c, key, time) == IF Live(c, key, time) THEN c[key].v ELSE Undefined

\* cache.get(key) finds an expired entry under the key.
Evicts(c, key, time) == key \in DOMAIN c /\ ~Live(c, key, time)

\* cache.get(key) deletes the entry it finds expired.
CacheAfterGet(c, key, time) ==
    IF Evicts(c, key, time)
    THEN [k \in DOMAIN c \ {key} |-> c[k]]
    ELSE c

\* A cache that keeps the first value written under a key.
CacheSet_keepFirst(c, key, value, time) ==
    [k \in DOMAIN c \cup {key} |->
        IF k \in DOMAIN c THEN c[k] ELSE [v |-> value, t |-> time + stdTTL * 1000]]

\* cache.set(key, value): overwrites, expiry stdTTL seconds from now.
CacheSet(c, key, value, time) ==
    [k \in DOMAIN c \cup {key} |->
        IF k = key THEN [v |-> value, t |-> time + stdTTL * 1000] ELSE c[k]]

(***************************************************************************)
(* Cache keys.                                                             *)
(***************************************************************************)
newsCacheKey(language, nextPage) ==
    IF Truthy(nextPage)
    THEN "news-" \o language \o "-page-" \o TemplateString(nextPage)
    ELSE "news-" \o language

searchCacheKey(language, query, category, nextPage) ==
    IF Truthy(nextPage)
    THEN "search-" \o TemplateString(language) \o "-" \o TemplateString(query) \o "-"
            \o TemplateString(category) \o "-page-" \o TemplateString(nextPage)
    ELSE "search-" \o TemplateString(language) \o "-" \o TemplateString(query) \o "-"
            \o TemplateString(category)

(***************************************************************************)
(* The rate limiter.                                                       *)
(***************************************************************************)
ZeroCounts == [k \in CountedIds |-> Num(0)]

\* The comparison written `>` for `>=`: one request more passes.
LimitReached_strict(counts, apiKeyType) ==
    GreaterOrEqual(Prop(counts, apiKeyType), rateLimit + 1)

\* originalApiRequestCounts[apiKeyType] >= rateLimit
LimitReached(counts, apiKeyType) == GreaterOrEqual(Prop(counts, apiKeyType), rateLimit)

\* The subtraction the other way round.
TimeRemaining_swapped(resetTime, time) == time - resetTime

\* timeRemaining = rateLimitResetTime - Date.now()
TimeRemaining(resetTime, time) == resetTime - time

\* The number of handlers of the identity that are suspended at their fetch.
InFlightOf(bag, apiKeyType) ==
    BagCardinality([r \in {x \in BagToSet(bag) : x.id = apiKeyType} |-> bag[r]])

\* A limit check that does not see the requests still in flight, as when the
\* increment is done after the await instead of before it.
Throttled_afterAwait(counts, apiKeyType, resetTime, time) ==
    /\ GreaterOrEqual(Prop(counts, apiKeyType),
                      rateLimit + InFlightOf(inflight, apiKeyType))
    /\ TimeRemaining(resetTime, time) > 0

\* The request is answered 429: the limit is reached and the window has time left.
Throttled(counts, apiKeyType, resetTime, time) ==
    LimitReached(counts, apiKeyType) /\ TimeRemaining(resetTime, time) > 0

\* resetRateLimit() runs: the limit is reached and the window has no time left.
Resets(counts, apiKeyType, resetTime, time) ==
    LimitReached(counts, apiKeyType) /\ ~(TimeRemaining(resetTime, time) > 0)

\* A reset that zeroes the search counter alone and keeps the other counters.
resetRateLimit_searchOnly(time) ==
    [apiRequestCount |-> 0,
     originalApiRequestCounts |-> [originalApiRequestCounts EXCEPT !["search"] = Num(0)],
     rateLimitResetTime |-> time + rateLimitWindow,
     firstRequestTime |-> NullNum]

\* A reset that starts a new window and keeps the counts.
resetRateLimit_keepCounts(time) ==
    [apiRequestCount |-> 0,
     originalApiRequestCounts |-> originalApiRequestCounts,
     rateLimitResetTime |-> time + rateLimitWindow,
     firstRequestTime |-> NullNum]

\* resetRateLimit(): the values it assigns to the four globals.
resetRateLimit(time) ==
    [apiRequestCount |-> 0,
     originalApiRequestCounts |-> ZeroCounts,
     rateLimitResetTime |-> time + rateLimitWindow,
     firstRequestTime |-> NullNum]

(***************************************************************************)
(* History of the admissions.  The log is kept for the identities in its   *)
(* domain: a behaviour that starts with the empty log keeps none.          *)
(***************************************************************************)
Logged(log, apiKeyType, time) ==
    IF apiKeyType \in DOMAIN log
    THEN [log EXCEPT ![apiKeyType] = @ (+) SetToBag({time})]
    ELSE log

NoProbe == [a |-> << >>, b |-> << >>, keyA |-> "", keyB |-> "", done |-> FALSE]

(***************************************************************************)
(* The three outcomes of a handler's first step.                           *)
(***************************************************************************)
\* A cache hit that is counted against the identity like an upstream call.
ServeFromCache_counted(apiKeyType, cacheKey, cachedData) ==
    /\ apiRequestCount' = apiRequestCount + 1
    /\ originalApiRequestCounts' = WithIncrement(originalApiRequestCounts, apiKeyType)
    /\ cache' = CacheAfterGet(cache, cacheKey, now)
    /\ last' = [step |-> "cache", id |-> apiKeyType, key |-> cacheKey,
                status |-> 200, body |-> cachedData]
    /\ UNCHANGED <<rateLimitResetTime, firstRequestTime, inflight, upstreamCalls,
                   admitLog, probe>>

\* `if (cachedData) return res.json(cachedData)`
ServeFromCache(apiKeyType, cacheKey, cachedData) ==
    /\ apiRequestCount' = apiRequestCount + 1
    /\ cache' = CacheAfterGet(cache, cacheKey, now)
    /\ last' = [step |-> "cache", id |-> apiKeyType, key |-> cacheKey,
                status |-> 200, body |-> cachedData]
    /\ UNCHANGED <<originalApiRequestCounts, rateLimitResetTime, firstRequestTime,
                   inflight, upstreamCalls,
                   admitLog, probe>>

\* A rejection that still increments the counter.
RejectRateLimited_counted(apiKeyType, cacheKey) ==
    /\ apiRequestCount' = apiRequestCount + 1
    /\ originalApiRequestCounts' = WithIncrement(originalApiRequestCounts, apiKeyType)
    /\ cache' = CacheAfterGet(cache, cacheKey, now)
    /\ last' = [step |-> "limited", id |-> apiKeyType, key |-> cacheKey,
                status |-> 429,
                body |-> [error |-> "Rate limit reached. Please try again later."],
                evicted |-> Evicts(cache, cacheKey, now)]
    /\ UNCHANGED <<rateLimitResetTime, firstRequestTime, inflight, upstreamCalls,
                   admitLog, probe>>

\* `return res.status(429).json({ error: ... })`
RejectRateLimited(apiKeyType, cacheKey) ==
    /\ apiRequestCount' = apiRequestCount + 1
    /\ cache' = CacheAfterGet(cache, cacheKey, now)
    /\ last' = [step |-> "limited", id |-> apiKeyType, key |-> cacheKey,
                status |-> 429,
                body |-> [error |-> "Rate limit reached. Please try again later."],
                evicted |-> Evicts(cache, cacheKey, now)]
    /\ UNCHANGED <<originalApiRequestCounts, rateLimitResetTime, firstRequestTime,
                   inflight, upstreamCalls,
                   admitLog, probe>>

\* resetRateLimit() when due, then the increment, then the handler suspends at
\* `await fetchNewsData(...)`.
AdmitToUpstream(apiKeyType, cacheKey) ==
    /\ IF Resets(originalApiRequestCounts, apiKeyType, rateLimitResetTime, now)
       THEN /\ apiRequestCount' = resetRateLimit(now).apiRequestCount
            /\ originalApiRequestCounts' =
                   WithIncrement(resetRateLimit(now).originalApiRequestCounts, apiKeyType)
            /\ rateLimitResetTime' = resetRateLimit(now).rateLimitResetTime
            /\ firstRequestTime' = resetRateLimit(now).firstRequestTime
            /\ upstreamCalls' = [k \in Identities |-> IF k = apiKeyType THEN 1 ELSE 0]
       ELSE /\ apiRequestCount' = apiRequestCount + 1
            /\ originalApiRequestCounts' =
                   WithIncrement(originalApiRequestCounts, apiKeyType)
            /\ UNCHANGED <<rateLimitResetTime, firstRequestTime>>
            /\ upstreamCalls' = [upstreamCalls EXCEPT ![apiKeyType] = @ + 1]
    /\ cache' = CacheAfterGet(cache, cacheKey, now)
    /\ inflight' = inflight (+) SetToBag({[id |-> apiKeyType, key |-> cacheKey]})
    /\ last' = [step |-> "admitted", id |-> apiKeyType, key |-> cacheKey,
                status |-> 0, body |-> Undefined,
                evicted |-> Evicts(cache, cacheKey, now)]
    /\ admitLog' = Logged(admitLog, apiKeyType, now)
    /\ probe' = probe

\* The handler body after the cache key is built (index.js:100-119, 140-159).
Admission(apiKeyType, cacheKey) ==
    LET cachedData == CacheGet(cache, cacheKey, now) IN
    /\ requests < MaxRequests
    /\ requests' = requests + 1
    /\ now' = now
    /\ IF Truthy(cachedData)
       THEN ServeFromCache(apiKeyType, cacheKey, cachedData)
       ELSE IF Throttled(originalApiRequestCounts, apiKeyType, rateLimitResetTime, now)
            THEN RejectRateLimited(apiKeyType, cacheKey)
            ELSE AdmitToUpstream(apiKeyType, cacheKey)

(***************************************************************************)
(* Routes.                                                                 *)
(***************************************************************************)
handleNewsRequest(language, apiKeyType, nextPage) ==
    Admission(apiKeyType, newsCacheKey(language, nextPage))

TeluguNews == \E page \in Pages : handleNewsRequest("te", "telugu", page)

TeluguTwoNews == \E page \in Pages : handleNewsRequest("te", "telugutwo", page)

EnglishNews == \E page \in Pages : handleNewsRequest("en", "english", page)

Search ==
    \E q \in Queries, lang \in Languages, category \in Categories, page \in Pages :
        LET language == IF Truthy(lang) THEN lang ELSE Str("te") IN
        Admission("search", searchCacheKey(language, q, category, page))

(***************************************************************************)
(* The upstream fetch of a suspended handler completes.                    *)
(***************************************************************************)
\* fetchNewsData returned response.data: cache.set, res.json(data).
FetchSucceeds ==
    \E r \in BagToSet(inflight), data \in Payloads :
        /\ cache' = CacheSet(cache, r.key, data, now)
        /\ inflight' = inflight (-) SetToBag({r})
        /\ last' = [step |-> "fetched", id |-> r.id, key |-> r.key,
                    status |-> 200, body |-> data]
        /\ UNCHANGED <<now, apiRequestCount, originalApiRequestCounts,
                       rateLimitResetTime, firstRequestTime, requests, upstreamCalls,
                       admitLog, probe>>

\* A failure handler that gives the quota back: the catch block decrements.
FetchFails_rollback ==
    \E r \in BagToSet(inflight) :
        /\ inflight' = inflight (-) SetToBag({r})
        /\ last' = [step |-> "failed", id |-> r.id, key |-> r.key,
                    status |-> 500, body |-> [error |-> "Failed to fetch data"]]
        /\ originalApiRequestCounts' =
               [p \in DOMAIN originalApiRequestCounts |->
                   IF p = r.id /\ originalApiRequestCounts[p].t = "number"
                   THEN Num(originalApiRequestCounts[p].n - 1)
                   ELSE originalApiRequestCounts[p]]
        /\ UNCHANGED <<now, apiRequestCount, rateLimitResetTime, firstRequestTime,
                       cache, requests, upstreamCalls,
                       admitLog, probe>>

\* A catch block that passes the cause of the failure on to the client.
FetchFails_leaks ==
    \E r \in BagToSet(inflight) :
        /\ inflight' = inflight (-) SetToBag({r})
        /\ last' = [step |-> "failed", id |-> r.id, key |-> r.key,
                    status |-> 500,
                    body |-> [error |-> "Failed to fetch data",
                              cause |-> "connect ETIMEDOUT"]]
        /\ UNCHANGED <<now, apiRequestCount, originalApiRequestCounts,
                       rateLimitResetTime, firstRequestTime, cache, requests,
                       upstreamCalls, admitLog, probe>>

\* fetchNewsData threw: res.status(500).json({ error: 'Failed to fetch data' }).
FetchFails ==
    \E r \in BagToSet(inflight) :
        /\ inflight' = inflight (-) SetToBag({r})
        /\ last' = [step |-> "failed", id |-> r.id, key |-> r.key,
                    status |-> 500, body |-> [error |-> "Failed to fetch data"]]
        /\ UNCHANGED <<now, apiRequestCount, originalApiRequestCounts,
                       rateLimitResetTime, firstRequestTime, cache, requests,
                       upstreamCalls, admitLog, probe>>

(***************************************************************************)
(* GET /rate-limit.                                                        *)
(***************************************************************************)
rateLimitInfo ==
    LET timeElapsed == IF TruthyNum(firstRequestTime) THEN now - firstRequestTime.n ELSE 0
        timeRemaining == rateLimitWindow - timeElapsed
    IN [Teluguapi |->
           [teluguApiRequests |-> originalApiRequestCounts.telugu.n,
            OriginalApiRequestsRemaining |-> rateLimit - originalApiRequestCounts.telugu.n,
            TimeRemaining |-> timeRemaining \div 1000],
        Englishapi |->
           [EnglishApiRequests |-> originalApiRequestCounts.english.n,
            OriginalApiRequestsRemaining |-> rateLimit - originalApiRequestCounts.english.n,
            TimeRemaining |-> timeRemaining \div 1000],
        SearchApi |->
           [SearchApiRequests |-> originalApiRequestCounts.search.n,
            OriginalApiRequestsRemaining |-> rateLimit - originalApiRequestCounts.search.n,
            TimeRemaining |-> timeRemaining \div 1000]]

RateLimit ==
    /\ last' = [step |-> "rateinfo", id |-> "", key |-> "", status |-> 200,
                body |-> rateLimitInfo]
    /\ UNCHANGED <<now, apiRequestCount, originalApiRequestCounts, rateLimitResetTime,
                   firstRequestTime, cache, inflight, requests, upstreamCalls,
                       admitLog, probe>>

(***************************************************************************)
(* Time passes.                                                            *)
(***************************************************************************)
Tick ==
    /\ now + TickMs <= MaxTicks * TickMs
    /\ now' = now + TickMs
    /\ UNCHANGED <<apiRequestCount, originalApiRequestCounts, rateLimitResetTime,
                   firstRequestTime, cache, inflight, last, requests, upstreamCalls,
                       admitLog, probe>>

(***************************************************************************)
(* The state after the module is loaded (Started = 0), or the state after  *)
(* Started admitted requests of every route whose fetch failed, all within *)
(* the first instant: each such request increments apiRequestCount and its *)
(* counter (the first telugutwo request turns the missing property into    *)
(* NaN, and NaN it stays) and leaves nothing in the cache.                 *)
(***************************************************************************)
StartCounts == {0, rateLimit - 1}

Init ==
    /\ now = 0
    /\ \E Started \in StartCounts :
          /\ originalApiRequestCounts =
                IF Started = 0 THEN ZeroCounts
                ELSE [k \in Identities |-> IF k \in CountedIds THEN Num(Started) ELSE NaN]
          /\ apiRequestCount = Cardinality(Identities) * Started
          /\ upstreamCalls = [k \in Identities |-> Started]
    /\ rateLimitResetTime = 0 + rateLimitWindow
    /\ firstRequestTime = NullNum
    /\ cache = << >>
    /\ inflight = EmptyBag
    /\ last = [step |-> "start", id |-> "", key |-> "", status |-> 0, body |-> Undefined]
    /\ requests = 0
    /\ admitLog = << >>
    /\ probe = NoProbe

Next ==
    \/ TeluguNews
    \/ TeluguTwoNews
    \/ EnglishNews
    \/ Search
    \/ FetchSucceeds
    \/ FetchFails
    \/ RateLimit
    \/ Tick

Spec == Init /\ [][Next]_vars

(***************************************************************************)
(* Steps, as seen from the state before and the state after.               *)
(***************************************************************************)
\* A handler's first step: a request is received and runs up to its answer
\* or to its await.  last' names its identity, its key and its outcome.
RequestStep == requests' = requests + 1

\* The request of this step found no (truthy) value under its key.
Missed == ~Truthy(CacheGet(cache, last'.key, now))

\* A suspended handler resumes: its fetch succeeded or failed.
FetchStep == BagCardinality(inflight') < BagCardinality(inflight)

\* What cache.get answers for every key is the same before and after the step.
SameCacheContents ==
    \A k \in DOMAIN cache \cup DOMAIN cache' :
        CacheGet(cache', k, now') = CacheGet(cache, k, now)

(***************************************************************************)
(* C1.  For telugu, english and search, within an unexpired window the     *)
(* k-th cache-missing request since the last reset is admitted to the      *)
(* upstream exactly when k <= 30: it increments the counter and suspends   *)
(* at the fetch (whose payload is cached when it succeeds); the 31st is    *)
(* answered 429 and starts no fetch.                                       *)
(***************************************************************************)
C1_ThirtyAdmittedPerWindow ==
    [][/\ \A id \in CountedIds :
            (RequestStep /\ last'.id = id /\ Missed /\ now < rateLimitResetTime) =>
                /\ upstreamCalls[id] <= rateLimit
                /\ upstreamCalls[id] < rateLimit =>
                      /\ last'.step = "admitted"
                      /\ upstreamCalls'[id] = upstreamCalls[id] + 1
                      /\ originalApiRequestCounts'[id] = Num(upstreamCalls[id] + 1)
                      /\ inflight' = inflight (+) SetToBag({[id |-> id, key |-> last'.key]})
                /\ upstreamCalls[id] = rateLimit =>
                      /\ last'.status = 429
                      /\ inflight' = inflight
                      /\ upstreamCalls' = upstreamCalls
       /\ (FetchStep /\ last'.status = 200) =>
              cache'[last'.key] = [v |-> last'.body, t |-> now + 12 * 60 * 60 * 1000]
      ]_vars

\* The 30th search request was admitted and its payload cached, and the 31st,
\* for another key, has just been rejected in the same window.
C1_Witness ==
    /\ last.step = "limited"
    /\ last.id = "search"
    /\ upstreamCalls["search"] = rateLimit
    /\ now < rateLimitResetTime
    /\ \E k \in DOMAIN cache : k # last.key /\ Truthy(cache[k].v)
    /\ inflight = EmptyBag

(***************************************************************************)
(* C2.  A cache-missing request that arrives when the window has elapsed   *)
(* (now >= rateLimitResetTime) resets first: it is admitted, its           *)
(* identity's count is exactly 1 afterwards and the window ends at         *)
(* now + 15 min, whatever the count was.                                   *)
(***************************************************************************)
C2_ElapsedWindowResets ==
    [][\A id \in CountedIds :
          (RequestStep /\ last'.id = id /\ Missed /\ now >= rateLimitResetTime) =>
              /\ last'.step = "admitted"
              /\ originalApiRequestCounts'[id] = Num(1)
              /\ rateLimitResetTime' = now + rateLimitWindow
      ]_vars

(***************************************************************************)
(* C3.  Every identity a route passes to the admission logic (telugu,      *)
(* telugutwo, english, search) is limited: once 30 cache-missing requests  *)
(* of it were admitted since the last reset and the window has not         *)
(* elapsed, its next cache-missing request is answered 429.                *)
(***************************************************************************)
C3_EveryIdentityLimited ==
    [][\A id \in Identities :
          (RequestStep /\ last'.id = id /\ Missed /\ now < rateLimitResetTime
              /\ upstreamCalls[id] >= rateLimit) =>
              last'.status = 429
      ]_vars

(***************************************************************************)
(* C4.  A request served from the cache leaves every identity's count and  *)
(* rateLimitResetTime unchanged, runs no resetRateLimit and starts no      *)
(* upstream fetch, also when the window has elapsed or the identity is at  *)
(* its limit.                                                              *)
(***************************************************************************)
C4_CacheHitLeavesLimiter ==
    [][(RequestStep /\ last'.step = "cache") =>
          /\ originalApiRequestCounts' = originalApiRequestCounts
          /\ rateLimitResetTime' = rateLimitResetTime
          /\ firstRequestTime' = firstRequestTime
          /\ inflight' = inflight
          /\ upstreamCalls' = upstreamCalls
      ]_vars

\* A request was served from the cache while its identity was at the limit and
\* the window had elapsed.
C4_Witness ==
    /\ last.step = "cache"
    /\ last.status = 200
    /\ Prop(originalApiRequestCounts, last.id) = Num(rateLimit)
    /\ now >= rateLimitResetTime
    /\ last.key \in DOMAIN cache

(***************************************************************************)
(* C5.  For every key and every payload a successful fetch can return      *)
(* (falsy ones included), a request for a key whose entry was stored less  *)
(* than 12 hours ago is served from the cache with the stored payload,     *)
(* starts no fetch and increments no count.                                *)
(***************************************************************************)
C5_SecondRequestServedFromCache ==
    [][(RequestStep /\ Live(cache, last'.key, now)) =>
          /\ last'.step = "cache"
          /\ last'.status = 200
          /\ last'.body = cache[last'.key].v
          /\ inflight' = inflight
          /\ originalApiRequestCounts' = originalApiRequestCounts
      ]_vars

(***************************************************************************)
(* C6.  When the fetch of an admitted request fails, the request is        *)
(* answered 500, the cache is not written and no count is rolled back:     *)
(* the counter still counts the failed attempt, so failed attempts use up  *)
(* the quota like successful ones.                                         *)
(***************************************************************************)
C6_FailureKeepsIncrement ==
    [][(FetchStep /\ last'.status # 200) =>
          /\ last'.status = 500
          /\ last'.body = [error |-> "Failed to fetch data"]
          /\ cache' = cache
          /\ originalApiRequestCounts' = originalApiRequestCounts
          /\ rateLimitResetTime' = rateLimitResetTime
          /\ \A id \in CountedIds :
                originalApiRequestCounts'[id] = Num(upstreamCalls'[id])
      ]_vars

\* The 30th attempt failed; the request repeated for its key missed the cache
\* again and was rejected, the quota being used up.
C6_Witness ==
    /\ last.step = "limited"
    /\ Prop(originalApiRequestCounts, last.id) = Num(rateLimit)
    /\ cache = << >>
    /\ inflight = EmptyBag
    /\ requests = 2

(***************************************************************************)
(* C7.  A request answered 429 changes nothing: what the cache holds,      *)
(* every identity's count and rateLimitResetTime are as before, and no     *)
(* fetch is started for it.                                                *)
(***************************************************************************)
C7_RejectionChangesNothing ==
    [][(RequestStep /\ last'.status = 429) =>
          /\ SameCacheContents
          /\ originalApiRequestCounts' = originalApiRequestCounts
          /\ rateLimitResetTime' = rateLimitResetTime
          /\ inflight' = inflight
          /\ upstreamCalls' = upstreamCalls
      ]_vars

\* A request was rejected while the cache held an entry.
C7_Witness ==
    /\ last.status = 429
    /\ DOMAIN cache # {}
    /\ Prop(originalApiRequestCounts, last.id) = Num(rateLimit)

C9_RetryAfterReturned ==
    [][(RequestStep /\ last'.status = 429) =>
          /\ "retryAfterSeconds" \in DOMAIN last'.body
          /\ last'.body.retryAfterSeconds = (rateLimitResetTime - now) \div 1000
          /\ last'.body.retryAfterSeconds > 0
      ]_vars

(***************************************************************************)
(* C10.  GET /rate-limit reports, for each identity, its count, the        *)
(* remaining quota 30 - count, and the seconds left until                  *)
(* rateLimitResetTime.                                                     *)
(***************************************************************************)
RateLimitStep ==
    /\ last'.step = "rateinfo"
    /\ UNCHANGED <<now, requests, inflight>>

C10_IntrospectionReportsWindow ==
    [][RateLimitStep =>
          LET left == (rateLimitResetTime - now) \div 1000
              n(id) == originalApiRequestCounts[id].n
          IN  /\ last'.body.Teluguapi =
                    [teluguApiRequests |-> n("telugu"),
                     OriginalApiRequestsRemaining |-> 30 - n("telugu"),
                     TimeRemaining |-> left]
              /\ last'.body.Englishapi =
                    [EnglishApiRequests |-> n("english"),
                     OriginalApiRequestsRemaining |-> 30 - n("english"),
                     TimeRemaining |-> left]
              /\ last'.body.SearchApi =
                    [SearchApiRequests |-> n("search"),
                     OriginalApiRequestsRemaining |-> 30 - n("search"),
                     TimeRemaining |-> left]
      ]_vars

(***************************************************************************)
(* The cache key of /search as a function of the query string.             *)
(***************************************************************************)
\* req.query of /search: each parameter absent or a string.
ProbeQueries == {Undefined, Str("undefined"), Str("a"), Str("a-b")}
ProbeLanguages == {Undefined, Str("en")}
ProbeCategories == {Undefined, Str("c"), Str("b-c")}
ProbePages == {Undefined, Str(""), Str("2")}

SearchRequests ==
    [q : ProbeQueries, language : ProbeLanguages,
     category : ProbeCategories, page : ProbePages]

\* index.js:94-99: the four reads of req.query and the key built from them.
searchKeyOf(query) ==
    LET language == IF Truthy(query.language) THEN query.language ELSE Str("te")
    IN searchCacheKey(language, query.q, query.category, query.page)

BuildKeys ==
    /\ ~probe.done
    /\ probe' = [probe EXCEPT !.keyA = searchKeyOf(probe.a),
                              !.keyB = searchKeyOf(probe.b),
                              !.done = TRUE]
    /\ UNCHANGED <<now, apiRequestCount, originalApiRequestCounts, rateLimitResetTime,
                   firstRequestTime, cache, inflight, last, requests, upstreamCalls,
                   admitLog>>

InitKeys ==
    /\ now = 0
    /\ apiRequestCount = 0
    /\ originalApiRequestCounts = ZeroCounts
    /\ upstreamCalls = [k \in Identities |-> 0]
    /\ rateLimitResetTime = 0 + rateLimitWindow
    /\ firstRequestTime = NullNum
    /\ cache = << >>
    /\ inflight = EmptyBag
    /\ last = [step |-> "start", id |-> "", key |-> "", status |-> 0, body |-> Undefined]
    /\ requests = 0
    /\ admitLog = << >>
    /\ \E a \in SearchRequests, b \in SearchRequests :
          probe = [a |-> a, b |-> b, keyA |-> "", keyB |-> "", done |-> FALSE]

NextKeys == BuildKeys

SpecKeys == InitKeys /\ [][NextKeys]_vars

\* C11: two /search requests that differ in q, language, category or page
\* (each absent or a string) never get the same cache key, and identical
\* requests get the same key.
C11_SearchKeyInjective ==
    probe.done => ((probe.keyA = probe.keyB) <=> (probe.a = probe.b))

(***************************************************************************)
(* The routes outside handleNewsRequest, and /search without q.            *)
(* GET /topnews and POST /topnews/url read and write none of the module's  *)
(* state, so each request is one step from its arrival to its answer.      *)
(***************************************************************************)
\* req.body.url: absent, empty, or the address of an article.
Urls == {Undefined, Str(""), Str("https://tv9telugu.com/a")}

TopNewsPayloads == {Obj("[{\"title\":\"t\"}]")}
ScrapedArticles == {Obj("{\"title\":\"t\",\"image\":\"i\",\"body\":\"b\"}")}

\* index.js:199-207
TopNews ==
    /\ requests < MaxRequests
    /\ requests' = requests + 1
    /\ \/ \E data \in TopNewsPayloads :
             last' = [step |-> "topnews", id |-> "topnews", key |-> "",
                      status |-> 200, body |-> data]
       \/ last' = [step |-> "topnewsfailed", id |-> "topnews", key |-> "",
                   status |-> 500, body |-> [error |-> "Failed to fetch news data"]]
    /\ UNCHANGED <<now, apiRequestCount, originalApiRequestCounts, rateLimitResetTime,
                   firstRequestTime, cache, inflight, upstreamCalls, admitLog, probe>>

\* part_000:40-67
TopNewsUrl ==
    \E url \in Urls :
        /\ requests < MaxRequests
        /\ requests' = requests + 1
        /\ IF ~Truthy(url)
           THEN last' = [step |-> "invalid", id |-> "topnews/url", key |-> "",
                         status |-> 400, body |-> [error |-> "URL is required"],
                         url |-> url]
           ELSE \/ \E article \in ScrapedArticles :
                      last' = [step |-> "scraped", id |-> "topnews/url", key |-> "",
                               status |-> 200, body |-> article, url |-> url]
                \/ last' = [step |-> "scrapefailed", id |-> "topnews/url", key |-> "",
                            status |-> 500,
                            body |-> [error |-> "Failed to scrape the URL"],
                            url |-> url]
        /\ UNCHANGED <<now, apiRequestCount, originalApiRequestCounts,
                       rateLimitResetTime, firstRequestTime, cache, inflight,
                       upstreamCalls, admitLog, probe>>

\* GET /search with no q: req.query.q is undefined, and the handler goes on.
SearchWithoutQuery ==
    \E lang \in Languages, category \in Categories, page \in Pages :
        LET language == IF Truthy(lang) THEN lang ELSE Str("te") IN
        Admission("search", searchCacheKey(language, Undefined, category, page))

InitRoutes ==
    /\ now = 0
    /\ apiRequestCount = 0
    /\ originalApiRequestCounts = ZeroCounts
    /\ upstreamCalls = [k \in Identities |-> 0]
    /\ rateLimitResetTime = 0 + rateLimitWindow
    /\ firstRequestTime = NullNum
    /\ cache = << >>
    /\ inflight = EmptyBag
    /\ last = [step |-> "start", id |-> "", key |-> "", status |-> 0, body |-> Undefined]
    /\ requests = 0
    /\ admitLog = << >>
    /\ probe = NoProbe

NextRoutes ==
    \/ TeluguNews
    \/ TeluguTwoNews
    \/ EnglishNews
    \/ Search
    \/ SearchWithoutQuery
    \/ TopNews
    \/ TopNewsUrl
    \/ FetchSucceeds
    \/ FetchFails
    \/ RateLimit
    \/ Tick

SpecRoutes == InitRoutes /\ [][NextRoutes]_vars

\* The keys /search builds when q is absent.
NoQueryKeys ==
    {searchCacheKey(IF Truthy(lang) THEN lang ELSE Str("te"), Undefined, category, page) :
        lang \in Languages, category \in Categories, page \in Pages}

\* The request of this step came without its required input.
LacksInput ==
    \/ last'.id = "topnews/url" /\ ~Truthy(last'.url)
    \/ last'.id = "search" /\ last'.key \in NoQueryKeys

\* C12: a request without its required input (url of /topnews/url, q of
\* /search) is answered at once with a validation error, and the cache, the
\* counts and the upstream are left alone.
C12_MissingInputRejected ==
    [][RequestStep /\ LacksInput =>
          /\ last'.status = 400
          /\ cache' = cache
          /\ originalApiRequestCounts' = originalApiRequestCounts
          /\ inflight' = inflight
          /\ upstreamCalls' = upstreamCalls]_vars

\* The step calls an upstream: a handler reaches its axios.get.
CallsUpstream ==
    /\ RequestStep
    /\ last'.step \in {"admitted", "topnews", "topnewsfailed", "scraped", "scrapefailed"}

\* The step ends with an upstream's successful result.
UpstreamSucceeded ==
    /\ RequestStep \/ FetchStep
    /\ last'.step \in {"fetched", "topnews", "scraped"}

\* C14: on every route an upstream is called only after a cache miss for the
\* request's key and an admission by the limiter, and the successful result
\* is stored in the cache under that key.
C14_SharedAdmissionLayer ==
    [][/\ CallsUpstream =>
             /\ Missed
             /\ last'.step = "admitted"
             /\ inflight' = inflight (+) SetToBag({[id |-> last'.id, key |-> last'.key]})
       /\ UpstreamSucceeded =>
             CacheGet(cache', last'.key, now') = last'.body]_vars

(***************************************************************************)
(* Expiry: the clock may jump by the cache's time to live.  The jump is    *)
(* the only way past the last tick, so the clock takes the values of the   *)
(* ticks and the same values twelve hours later.                           *)
(***************************************************************************)
HalfDay ==
    /\ now < stdTTL * 1000
    /\ now' = now + stdTTL * 1000
    /\ UNCHANGED <<apiRequestCount, originalApiRequestCounts, rateLimitResetTime,
                   firstRequestTime, cache, inflight, last, requests, upstreamCalls,
                   admitLog, probe>>

InitExpiry ==
    /\ now = 0
    /\ apiRequestCount = 0
    /\ originalApiRequestCounts = ZeroCounts
    /\ upstreamCalls = [k \in Identities |-> 0]
    /\ rateLimitResetTime = 0 + rateLimitWindow
    /\ firstRequestTime = NullNum
    /\ cache = << >>
    /\ inflight = EmptyBag
    /\ last = [step |-> "start", id |-> "", key |-> "", status |-> 0, body |-> Undefined]
    /\ requests = 0
    /\ admitLog = << >>
    /\ probe = NoProbe

NextExpiry ==
    \/ TeluguNews
    \/ TeluguTwoNews
    \/ EnglishNews
    \/ Search
    \/ FetchSucceeds
    \/ FetchFails
    \/ RateLimit
    \/ Tick
    \/ HalfDay

SpecExpiry == InitExpiry /\ [][NextExpiry]_vars

TwelveHours == 12 * 60 * 60 * 1000

\* The time at which the entry under the request's key was stored.
StoredAt == cache[last'.key].t - TwelveHours

\* The request of this step is treated as a miss: it is rejected by the
\* limiter or admitted to the upstream, according to the limiter alone.
TreatedAsMiss ==
    /\ last'.step \in {"limited", "admitted"}
    /\ last'.step = "limited" <=>
          Throttled(originalApiRequestCounts, last'.id, rateLimitResetTime, now)
    /\ last'.step = "admitted" =>
          inflight' = inflight (+) SetToBag({[id |-> last'.id, key |-> last'.key]})

\* Every entry is written with expiry = time of the write + 12 hours.
StoredWithTwelveHours ==
    FetchStep /\ last'.status = 200 =>
        cache'[last'.key] = [v |-> last'.body, t |-> now + TwelveHours]

C15_CountWithinLimit ==
    /\ \A id \in CountedIds :
          /\ originalApiRequestCounts[id].t = "number"
          /\ 0 <= originalApiRequestCounts[id].n
          /\ originalApiRequestCounts[id].n <= rateLimit
    /\ rateLimitInfo.Teluguapi.OriginalApiRequestsRemaining >= 0
    /\ rateLimitInfo.Englishapi.OriginalApiRequestsRemaining >= 0
    /\ rateLimitInfo.SearchApi.OriginalApiRequestsRemaining >= 0

\* Two handlers are suspended at their fetch, the counts of both identities
\* are at the limit, and /rate-limit has just reported no quota left.
C15_Witness ==
    /\ BagCardinality(inflight) = 2
    /\ InFlightOf(inflight, "search") = 1
    /\ InFlightOf(inflight, "telugu") = 1
    /\ originalApiRequestCounts["search"] = Num(rateLimit)
    /\ originalApiRequestCounts["telugu"] = Num(rateLimit)
    /\ last.step = "rateinfo"
    /\ last.body.SearchApi.OriginalApiRequestsRemaining = 0

(***************************************************************************)
(* C16.  No single-flight coalescing: a request that misses the cache      *)
(* while a fetch for the same key is still in flight is admitted like any  *)
(* other miss (when the limiter allows it), starts a fetch of its own and  *)
(* increments its identity's count by one; each successful fetch           *)
(* overwrites the entry, so the cache holds the payload of the fetch that  *)
(* completed last.                                                         *)
(***************************************************************************)
KeyInFlight(key) == \E r \in BagToSet(inflight) : r.key = key

C16_NoCoalescing ==
    [][/\ (RequestStep /\ Missed /\ KeyInFlight(last'.key)
              /\ ~Throttled(originalApiRequestCounts, last'.id, rateLimitResetTime, now)) =>
             LET r == [id |-> last'.id, key |-> last'.key]
                 before == IF Resets(originalApiRequestCounts, last'.id,
                                     rateLimitResetTime, now)
                           THEN ZeroCounts ELSE originalApiRequestCounts
             IN /\ last'.step = "admitted"
                /\ CopiesIn(r, inflight') = CopiesIn(r, inflight) + 1
                /\ BagCardinality(inflight') = BagCardinality(inflight) + 1
                /\ originalApiRequestCounts'[last'.id] = Incremented(Prop(before, last'.id))
       /\ (FetchStep /\ last'.status = 200) =>
             /\ last'.key \in DOMAIN cache'
             /\ cache'[last'.key].v = last'.body
      ]_vars

\* Two requests of one identity for one key are both suspended at their
\* fetch, and both were counted.
C16_Witness ==
    \E r \in BagToSet(inflight) :
        /\ CopiesIn(r, inflight) = 2
        /\ originalApiRequestCounts[r.id] = Num(2)

(***************************************************************************)
(* C17.  For telugu, english and search the count equals, in every         *)
(* reachable state, the number of upstream fetches started for the         *)
(* identity since resetRateLimit last ran (or since the start): a step     *)
(* starts at most one fetch, the number of fetches started since the last  *)
(* reset grows with it and with nothing else, and the completion of a      *)
(* fetch changes no count.                                                 *)
(***************************************************************************)
\* resetRateLimit() ran in this step: it moves the end of the window.
ResetStep == rateLimitResetTime' # rateLimitResetTime

C17_CountTracksFetches ==
    /\ [](\A id \in CountedIds : originalApiRequestCounts[id] = Num(upstreamCalls[id]))
    /\ [][IF FetchStep
          THEN /\ originalApiRequestCounts' = originalApiRequestCounts
               /\ upstreamCalls' = upstreamCalls
          ELSE \A id \in Identities :
                  LET started == InFlightOf(inflight', id) - InFlightOf(inflight, id)
                  IN /\ started \in {0, 1}
                     /\ upstreamCalls'[id] =
                           (IF ResetStep THEN 0 ELSE upstreamCalls[id]) + started
         ]_vars

\* A search fetch started before the reset is still in flight; the request
\* that reset the window started the second one, and the count is 1.
C17_Witness ==
    /\ InFlightOf(inflight, "search") = 2
    /\ originalApiRequestCounts["search"] = Num(1)
    /\ rateLimitResetTime > rateLimitWindow

(***************************************************************************)
(* C18.  Cache keys include the route: the key under which a news route    *)
(* caches a payload is never a key that the route of another identity      *)
(* reads, for any page parameter.                                          *)
(***************************************************************************)
\* The language each news route passes to handleNewsRequest.
routeLanguage == [telugu |-> "te", telugutwo |-> "te", english |-> "en"]

C18_KeysIncludeRoute ==
    [][(FetchStep /\ last'.status = 200 /\ last'.id \in DOMAIN routeLanguage) =>
          \A other \in DOMAIN routeLanguage \ {last'.id}, page \in Pages :
              newsCacheKey(routeLanguage[other], page) # last'.key]_vars

(***************************************************************************)
(* C19.  Every request on /search and the news routes is answered exactly  *)
(* once, at the step where its handler ends: 200 from the cache or 429 at  *)
(* its first step, or 200 / 500 when its fetch completes.  A failed fetch  *)
(* is answered 500 with the body {error: 'Failed to fetch data'} and       *)
(* nothing else.                                                           *)
(***************************************************************************)
C19_OneResponsePerRequest ==
    [][/\ RequestStep =>
             /\ last'.step \in {"cache", "limited", "admitted"}
             /\ last'.step = "cache" => last'.status = 200 /\ inflight' = inflight
             /\ last'.step = "limited" => last'.status = 429 /\ inflight' = inflight
             /\ last'.step = "admitted" =>
                   /\ last'.status = 0
                   /\ inflight' = inflight (+)
                                    SetToBag({[id |-> last'.id, key |-> last'.key]})
       /\ FetchStep =>
             /\ [id |-> last'.id, key |-> last'.key] \in BagToSet(inflight)
             /\ inflight' = inflight (-) SetToBag({[id |-> last'.id, key |-> last'.key]})
             /\ last'.step \in {"fetched", "failed"}
             /\ last'.step = "fetched" => last'.status = 200
             /\ last'.step = "failed" =>
                   /\ last'.status = 500
                   /\ last'.body = [error |-> "Failed to fetch data"]
       /\ ~RequestStep /\ ~FetchStep => inflight' = inflight /\ (last' = last \/ RateLimitStep)
      ]_vars

\* All requests of the behaviour were answered, the last one with 500 after
\* its fetch failed.
C19_Witness ==
    /\ last.step = "failed"
    /\ last.status = 500
    /\ requests = MaxRequests
    /\ inflight = EmptyBag

(***************************************************************************)
(* Bursts across a reset.  The behaviours keep the log of admissions, and  *)
(* start in the middle of a burst:                                         *)
(*   - at 10 min, 30 requests of each of telugu, english and search miss   *)
(*     and are admitted, and every fetch fails (nothing is cached);        *)
(*   - at 15 min the window has no time left: the next telugu request      *)
(*     runs resetRateLimit() and is admitted, and 28 more telugu requests  *)
(*     and 29 english and 29 search requests are admitted, all failing.    *)
(* The resetting request's own apiRequestCount++ is wiped by the reset, so *)
(* apiRequestCount is 28 + 29 + 29.                                        *)
(***************************************************************************)
\* The clock goes on through the second window.
LateTick ==
    /\ rateLimitWindow <= now
    /\ now + TickMs <= rateLimitWindow + MaxTicks * TickMs
    /\ now' = now + TickMs
    /\ UNCHANGED <<apiRequestCount, originalApiRequestCounts, rateLimitResetTime,
                   firstRequestTime, cache, inflight, last, requests, upstreamCalls,
                   admitLog, probe>>

InitBurst ==
    /\ now = rateLimitWindow
    /\ apiRequestCount = 3 * (rateLimit - 1) - 1
    /\ originalApiRequestCounts = [k \in CountedIds |-> Num(rateLimit - 1)]
    /\ upstreamCalls = [k \in Identities |-> IF k \in CountedIds THEN rateLimit - 1 ELSE 0]
    /\ rateLimitResetTime = rateLimitWindow + rateLimitWindow
    /\ admitLog = [k \in CountedIds |->
                      [t \in {rateLimitWindow - TickMs, rateLimitWindow} |->
                          IF t = rateLimitWindow THEN rateLimit - 1 ELSE rateLimit]]
    /\ last = [step |-> "failed", id |-> "search", key |-> "search-te-modi-undefined",
               status |-> 500, body |-> [error |-> "Failed to fetch data"]]
    /\ firstRequestTime = NullNum
    /\ cache = << >>
    /\ inflight = EmptyBag
    /\ requests = 0
    /\ probe = NoProbe

NextBurst ==
    \/ TeluguNews
    \/ EnglishNews
    \/ Search
    \/ FetchSucceeds
    \/ FetchFails
    \/ LateTick

SpecBurst == InitBurst /\ [][NextBurst]_vars

\* The number of fetches of the identity started in the interval [from, from + length).
AdmittedIn(id, from, length) ==
    BagCardinality([t \in {x \in BagToSet(admitLog[id]) : from <= x /\ x - from < length} |->
                       admitLog[id][t]])

\* The time resetRateLimit() ran last (module load counts as the first run):
\* each run sets rateLimitResetTime to its own time + rateLimitWindow.
LastResetAt == rateLimitResetTime - rateLimitWindow

\* C20: two consecutive runs of resetRateLimit are at least one window
\* (15 min) apart, and for each of telugu, english and search no time
\* interval shorter than one window holds more than 60 admitted upstream
\* calls.
C20_BurstBound ==
    /\ [][ResetStep =>
             /\ now - LastResetAt >= rateLimitWindow
             /\ rateLimitResetTime' = now + rateLimitWindow]_vars
    /\ [](\A id \in DOMAIN admitLog :
             \A from \in BagToSet(admitLog[id]) :
                 AdmittedIn(id, from, rateLimitWindow) <= 2 * rateLimit)

\* 60 search fetches were started within five minutes, 30 before the reset
\* and 30 after it, and the 61st request has just been rejected.
C20_Witness ==
    /\ "search" \in DOMAIN admitLog
    /\ AdmittedIn("search", rateLimitWindow - TickMs, TickMs + 1) = 2 * rateLimit
    /\ last.step = "limited"
    /\ last.id = "search"

====
